---- MODULE Spec2Model ----
(***************************************************************************)
(* Model of package dl (dl.go): SetUserAgent, FileExists, GetBodyFromURL,  *)
(* GetRespFromURL, DownloadFile and writeToFileFromURL, acting on one      *)
(* destination path of the local file system and one remote server.       *)
(*                                                                         *)
(* DownloadFile and writeToFileFromURL are modelled statement group by     *)
(* statement group (pc is the position in the code), so that the order of  *)
(* requests, closes and file operations is visible in the states.          *)
(***************************************************************************)
EXTENDS Integers, Sequences, FiniteSets, TLC

\* Longest response body the server sends, in bytes.
MaxBody == 2
\* Longest destination file present before the first call, in bytes.
MaxFile == 3

VARIABLES
    userAgent,  \* package variable userAgent (dl.go:37)
    fs,         \* the destination on disk: parent directory, existence, bytes
    pc,         \* position of the running call, "idle" between calls
    fn,         \* exported function that is running / has just returned
    args,       \* arguments of the running call: u, headers, cookies
    head,       \* DownloadFile's `head` (response of the preliminary request)
    length,     \* DownloadFile's `length` (0 until assigned)
    stat,       \* DownloadFile's `stat.Size()` (-1 until assigned)
    resp,       \* `resp` of writeToFileFromURL / GetBodyFromURL / GetRespFromURL:
                \* the body it carries (its Content-Length only feeds the
                \* progress message, dl.go:182-185 and 206)
    ret,        \* values returned by the call: byte count (or body length), error
    sent,       \* requests handed to client.Do during the call, in order
    files,      \* *os.File handles the call opened and has not closed
    bodies,     \* response bodies the call received and has not closed
    before,     \* fs as it was when the call started
    wcalled,    \* writeToFileFromURL has been entered during the call
    served,     \* what the server has answered so far: -1 nothing, n >= 0
                \* every answer carried a body of n bytes and advertised
                \* that length, -2 anything else
    prevOK      \* the previous call was a DownloadFile that returned no error

vars == <<userAgent, fs, pc, fn, args, head, length, stat, resp, ret, sent,
          files, bodies, before, wcalled, served, prevOK>>

----------------------------------------------------------------------------
\* Text helpers.  Header names and Content-Length values are sequences of
\* one-character strings, because the code canonicalises and parses them.

Lowers == <<"a", "c", "e", "g", "i", "k", "n", "o", "r", "s", "t", "u", "x">>
Uppers == <<"A", "C", "E", "G", "I", "K", "N", "O", "R", "S", "T", "U", "X">>

ToUpper(c) ==
    IF \E i \in 1..Len(Lowers) : Lowers[i] = c
    THEN Uppers[CHOOSE i \in 1..Len(Lowers) : Lowers[i] = c]
    ELSE c

ToLower(c) ==
    IF \E i \in 1..Len(Uppers) : Uppers[i] = c
    THEN Lowers[CHOOSE i \in 1..Len(Uppers) : Uppers[i] = c]
    ELSE c

\* textproto.CanonicalMIMEHeaderKey, applied by Header.Set to its key: the
\* first letter and every letter after a hyphen upper case, the rest lower.
CanonicalMIMEHeaderKey(s) ==
    [i \in 1..Len(s) |->
        IF i = 1 \/ s[i - 1] = "-" THEN ToUpper(s[i]) ELSE ToLower(s[i])]

Digits == <<"0", "1", "2", "3", "4", "5", "6", "7", "8", "9">>

IsDigit(c) == \E i \in 1..Len(Digits) : Digits[i] = c

DigitVal(c) == (CHOOSE i \in 1..Len(Digits) : Digits[i] = c) - 1

RECURSIVE ParseUint(_)
ParseUint(s) ==
    IF s = <<>> THEN 0
    ELSE ParseUint(SubSeq(s, 1, Len(s) - 1)) * 10 + DigitVal(s[Len(s)])

\* Variant of ParseInt whose caller drops the error: text that is no number
\* counts as 0.
ParseInt_IgnoreError(s) ==
    LET signed == s # <<>> /\ s[1] \in {"+", "-"}
        digits == IF signed THEN Tail(s) ELSE s
        ok     == digits # <<>> /\ \A i \in 1..Len(digits) : IsDigit(digits[i])
        v      == IF ok THEN ParseUint(digits) ELSE 0
    IN  [err |-> FALSE, val |-> IF signed /\ s[1] = "-" THEN 0 - v ELSE v]

\* strconv.ParseInt(s, 10, 0): an optional sign, then one or more decimal
\* digits; anything else is a syntax error, reported with value 0.
ParseInt(s) ==
    LET signed == s # <<>> /\ s[1] \in {"+", "-"}
        digits == IF signed THEN Tail(s) ELSE s
        ok     == digits # <<>> /\ \A i \in 1..Len(digits) : IsDigit(digits[i])
        v      == IF ok THEN ParseUint(digits) ELSE 0
    IN  [err |-> ~ok, val |-> IF signed /\ s[1] = "-" THEN 0 - v ELSE v]

\* Decimal text of a length, as a server writes it into Content-Length.
RECURSIVE FormatInt(_)
FormatInt(n) ==
    IF n < 10 THEN <<Digits[n + 1]>>
    ELSE FormatInt(n \div 10) \o <<Digits[(n % 10) + 1]>>

Max(a, b) == IF a >= b THEN a ELSE b

----------------------------------------------------------------------------
\* The inputs a caller supplies and the answers the environment gives.

GoodURL == "http://host/file"
BadURL  == "%zz://"
URLs    == {GoodURL, BadURL}

\* http.NewRequest("GET", u.String(), nil) fails when the text of the URL
\* does not parse.
NewRequestFails(u) == u = BadURL

DefaultUserAgent == "dl v0.0.1"
UserAgents       == {DefaultUserAgent, "agent/2"}

KeyUserAgent   == <<"U", "s", "e", "r", "-", "A", "g", "e", "n", "t">>
KeyUserAgentLc == <<"u", "s", "e", "r", "-", "a", "g", "e", "n", "t">>
KeyCookie      == <<"C", "o", "o", "k", "i", "e">>
KeyCookieLc    == <<"c", "o", "o", "k", "i", "e">>
KeyToken       == <<"x", "-", "t", "o", "k", "e", "n">>

NoHeaders == [k \in {} |-> <<>>]

\* The header maps a caller passes (map[string]string; the keys of a Go map
\* are distinct strings, yet two of them may differ in letter case only).
\* A value is a sequence of the "; "-separated parts of the header line.
HeaderMaps ==
    { NoHeaders,
      KeyToken :> <<"t1">>,
      KeyUserAgentLc :> <<"curl">>,
      (KeyUserAgent :> <<"wget">>) @@ (KeyUserAgentLc :> <<"curl">>),
      KeyCookieLc :> <<"k=v">> }

Cookie1 == [Name |-> "sid", Value |-> "1"]
Cookie2 == [Name |-> "tz", Value |-> "utc"]
CookieLists == { <<>>, <<Cookie1, Cookie2>> }

\* The orders in which `for k, v := range headers` may visit the keys.
Orders(headers) ==
    LET n == Cardinality(DOMAIN headers)
    IN  { o \in [1..n -> DOMAIN headers] :
            \A i, j \in 1..n : i # j => o[i] # o[j] }

Bodies    == { [i \in 1..n |-> "x"] : n \in 0..MaxBody }
InitFiles == { [i \in 1..n |-> "o"] : n \in 0..MaxFile }

\* Values of the Content-Length response header; <<>> is "no such header".
CLValues ==
    { FormatInt(n) : n \in 0..Max(MaxBody, MaxFile) }
        \cup { <<>>, <<"a">>, <<"+", "1">>, <<"-", "1">> }

Responses == [cl : CLValues, body : Bodies]

Nil    == [nil |-> TRUE]
NoArgs == [u |-> "", headers |-> NoHeaders, cookies |-> <<>>]
NoRet  == [n |-> 0, err |-> "unset"]

\* served after one more answer r: -1 nothing served yet, n >= 0 every answer
\* so far had a body of n bytes and advertised Content-Length n, -2 otherwise.
Serve(s, r) ==
    IF r.cl = FormatInt(Len(r.body)) /\ s \in {-1, Len(r.body)}
    THEN Len(r.body)
    ELSE -2

----------------------------------------------------------------------------
\* Request construction.

\* http.Header.Get
HeaderGet(h, k) ==
    IF CanonicalMIMEHeaderKey(k) \in DOMAIN h
    THEN h[CanonicalMIMEHeaderKey(k)] ELSE <<>>

\* http.Header.Set: the value stored under the canonical form of the key
\* replaces whatever was there.
HeaderSet(h, k, v) ==
    [x \in DOMAIN h \cup {CanonicalMIMEHeaderKey(k)} |->
        IF x = CanonicalMIMEHeaderKey(k) THEN v ELSE h[x]]

\* Text of a cookie as Request.AddCookie writes it.
CookieText(c) == c.Name \o "=" \o c.Value

\* http.Request.AddCookie: appends "name=value" to the Cookie header line.
AddCookie(h, c) == HeaderSet(h, KeyCookie, HeaderGet(h, KeyCookie) \o <<CookieText(c)>>)

RECURSIVE AddCookies(_, _)
AddCookies(h, cookies) ==
    IF cookies = <<>> THEN h
    ELSE AddCookies(AddCookie(h, Head(cookies)), Tail(cookies))

RECURSIVE SetHeaders(_, _, _)
SetHeaders(h, headers, order) ==
    IF order = <<>> THEN h
    ELSE SetHeaders(HeaderSet(h, Head(order), headers[Head(order)]),
                    headers, Tail(order))

\* The request each of the four functions builds: GET, the user agent, then
\* the cookies, then the supplied headers in the order the map yields them.
BuildRequest(ua, a, order) ==
    [ method |-> "GET",
      url    |-> a.u,
      header |-> SetHeaders(
                    AddCookies(HeaderSet(NoHeaders, KeyUserAgent, <<ua>>), a.cookies),
                    a.headers, order) ]

\* Variant of FileExists that looks at the directory instead of the file.
FileExists_DirOnly(f) == f.dir

\* FileExists: os.Stat(filename) succeeds.
FileExists(f) == f.exists

\* Bytes of the file after the first k bytes of body were written at offset 0
\* through a handle opened without O_TRUNC (os.O_RDWR) or on an empty file
\* (os.Create).
WriteAt0(data, body, k) == SubSeq(body, 1, k) \o SubSeq(data, k + 1, Len(data))

----------------------------------------------------------------------------
Init ==
    /\ userAgent = DefaultUserAgent
    /\ fs \in  { [dir |-> d, exists |-> FALSE, data |-> <<>>] : d \in BOOLEAN }
         \cup { [dir |-> TRUE, exists |-> TRUE, data |-> f] : f \in InitFiles }
    /\ pc = "idle"
    /\ fn = "none"
    /\ args = NoArgs
    /\ head = Nil
    /\ length = 0
    /\ stat = -1
    /\ resp = Nil
    /\ ret = NoRet
    /\ sent = <<>>
    /\ files = {}
    /\ bodies = {}
    /\ before = fs
    /\ wcalled = FALSE
    /\ served = -1
    /\ prevOK = FALSE

\* SetUserAgent(ua)
SetUserAgent ==
    /\ pc = "idle"
    /\ \E ua \in UserAgents : userAgent' = ua
    /\ UNCHANGED <<fs, pc, fn, args, head, length, stat, resp, ret, sent,
                   files, bodies, before, wcalled, served, prevOK>>

\* `return n, err` of the exported function.  err is "nil" or the call that
\* failed: http.NewRequest is the spec's RequestConstructionError, client.Do
\* (and a failed read of the body) its NetworkError, the os and file calls
\* its LocalIOError; io.Copy fails on a network read or on a file write.
Return(n, err) ==
    /\ ret' = [n |-> n, err |-> err]
    /\ pc' = "done"

\* GetBodyFromURL (dl.go:55-76), as one step: the request, client.Do, then
\* ioutil.ReadAll, which may stop early with an error, and the deferred
\* resp.Body.Close().
GetBodyFromURL ==
    /\ pc = "idle"
    /\ fn' = "GetBodyFromURL"
    /\ \E u \in URLs, h \in HeaderMaps, c \in CookieLists :
        LET a == [u |-> u, headers |-> h, cookies |-> c]
        IN  /\ args' = a
            /\ IF NewRequestFails(u)
               THEN /\ Return(0, "http.NewRequest")
                    /\ UNCHANGED <<sent, resp, served>>
               ELSE /\ \E o \in Orders(h) : sent' = <<BuildRequest(userAgent, a, o)>>
                    /\ \/ /\ Return(0, "client.Do")
                          /\ UNCHANGED <<resp, served>>
                       \/ \E r \in Responses, k \in 0..MaxBody, failed \in BOOLEAN :
                            /\ k <= Len(r.body)
                            /\ k < Len(r.body) => failed
                            /\ resp' = [body |-> r.body]
                            /\ served' = Serve(served, r)
                            /\ Return(k, IF failed THEN "ioutil.ReadAll" ELSE "nil")
    /\ UNCHANGED <<userAgent, fs, head, length, stat, files, bodies, before,
                   wcalled, prevOK>>

\* GetRespFromURL (dl.go:79-95), as one step: the response is returned with
\* its body open.
GetRespFromURL ==
    /\ pc = "idle"
    /\ fn' = "GetRespFromURL"
    /\ \E u \in URLs, h \in HeaderMaps, c \in CookieLists :
        LET a == [u |-> u, headers |-> h, cookies |-> c]
        IN  /\ args' = a
            /\ IF NewRequestFails(u)
               THEN /\ Return(0, "http.NewRequest")
                    /\ UNCHANGED <<sent, resp, served, bodies>>
               ELSE /\ \E o \in Orders(h) : sent' = <<BuildRequest(userAgent, a, o)>>
                    /\ \/ /\ Return(0, "client.Do")
                          /\ UNCHANGED <<resp, served, bodies>>
                       \/ \E r \in Responses :
                            /\ resp' = [body |-> r.body]
                            /\ served' = Serve(served, r)
                            /\ bodies' = bodies \cup {"resp"}
                            /\ Return(0, "nil")
    /\ UNCHANGED <<userAgent, fs, head, length, stat, files, before, wcalled, prevOK>>

\* DownloadFile, dl.go:98-116: the request for the preliminary fetch is built,
\* then the destination is looked up.  The built request is kept as the first
\* element of sent only once client.Do receives it (DownloadFile_Do).
DownloadFile ==
    /\ pc = "idle"
    /\ fn' = "DownloadFile"
    /\ \E u \in URLs, h \in HeaderMaps, c \in CookieLists :
        /\ args' = [u |-> u, headers |-> h, cookies |-> c]
        /\ IF NewRequestFails(u)
           THEN Return(0, "http.NewRequest")
           ELSE /\ pc' = IF FileExists(fs) THEN "Do" ELSE "writeToFileFromURL"
                /\ ret' = ret
    /\ UNCHANGED <<userAgent, fs, head, length, stat, resp, sent, files, bodies,
                   before, wcalled, served, prevOK>>

\* Variant of DownloadFile_Do that falls over to the download when the
\* preliminary request fails.
DownloadFile_Do_FailOver ==
    /\ pc = "Do"
    /\ \E o \in Orders(args.headers) :
            sent' = Append(sent, BuildRequest(userAgent, args, o))
    /\ \/ /\ pc' = "writeToFileFromURL"
          /\ UNCHANGED <<head, bodies, served, ret>>
       \/ \E r \in Responses :
            /\ head' = [cl |-> r.cl]
            /\ served' = Serve(served, r)
            /\ bodies' = bodies \cup {"head"}
            /\ pc' = "BodyClose"
            /\ ret' = ret
    /\ UNCHANGED <<userAgent, fs, fn, args, length, stat, resp, files, before,
                   wcalled, prevOK>>

\* dl.go:118-122: head, err := client.Do(req)
DownloadFile_Do ==
    /\ pc = "Do"
    /\ \E o \in Orders(args.headers) :
            sent' = Append(sent, BuildRequest(userAgent, args, o))
    /\ \/ /\ Return(0, "client.Do")
          /\ UNCHANGED <<head, bodies, served>>
       \/ \E r \in Responses :
            /\ head' = [cl |-> r.cl]
            /\ served' = Serve(served, r)
            /\ bodies' = bodies \cup {"head"}
            /\ pc' = "BodyClose"
            /\ ret' = ret
    /\ UNCHANGED <<userAgent, fs, fn, args, length, stat, resp, files, before,
                   wcalled, prevOK>>

\* Variant of DownloadFile_BodyClose that leaves the body open.
DownloadFile_BodyClose_Missing ==
    /\ pc = "BodyClose"
    /\ pc' = "ContentLength"
    /\ UNCHANGED <<userAgent, fs, fn, args, head, length, stat, resp, ret, sent,
                   files, bodies, before, wcalled, served, prevOK>>

\* dl.go:123: head.Body.Close()
DownloadFile_BodyClose ==
    /\ pc = "BodyClose"
    /\ bodies' = bodies \ {"head"}
    /\ pc' = "ContentLength"
    /\ UNCHANGED <<userAgent, fs, fn, args, head, length, stat, resp, ret, sent,
                   files, before, wcalled, served, prevOK>>

\* dl.go:125-134: no Content-Length, or one that does not parse, forces the
\* download.
DownloadFile_ContentLength ==
    /\ pc = "ContentLength"
    /\ IF head.cl = <<>> \/ ParseInt(head.cl).err
       THEN /\ pc' = "writeToFileFromURL"
            /\ length' = length
       ELSE /\ pc' = "Open"
            /\ length' = ParseInt(head.cl).val
    /\ UNCHANGED <<userAgent, fs, fn, args, head, stat, resp, ret, sent, files,
                   bodies, before, wcalled, served, prevOK>>

\* dl.go:136-140: f, err := os.Open(fileloc)
DownloadFile_Open ==
    /\ pc = "Open"
    /\ \/ /\ Return(0, "os.Open")
          /\ files' = files
       \/ /\ files' = files \cup {"f"}
          /\ pc' = "Stat"
          /\ ret' = ret
    /\ UNCHANGED <<userAgent, fs, fn, args, head, length, stat, resp, sent,
                   bodies, before, wcalled, served, prevOK>>

\* dl.go:142-146: stat, err := f.Stat(); the error return leaves f open.
DownloadFile_Stat ==
    /\ pc = "Stat"
    /\ \/ /\ Return(0, "File.Stat")
          /\ stat' = stat
       \/ /\ stat' = Len(fs.data)
          /\ pc' = "Close"
          /\ ret' = ret
    /\ UNCHANGED <<userAgent, fs, fn, args, head, length, resp, sent, files,
                   bodies, before, wcalled, served, prevOK>>

\* Variant of SameSize with the comparison inverted.
SameSize_Inverted(size, len) == size # len

\* dl.go:149: stat.Size() == length
SameSize(size, len) == size = len

\* dl.go:147-154: f.Close(), then skip when the sizes are equal.
DownloadFile_Close ==
    /\ pc = "Close"
    /\ files' = files \ {"f"}
    /\ IF SameSize(stat, length)
       THEN Return(0, "nil")
       ELSE /\ pc' = "writeToFileFromURL"
            /\ ret' = ret
    /\ UNCHANGED <<userAgent, fs, fn, args, head, length, stat, resp, sent,
                   bodies, before, wcalled, served, prevOK>>

\* Variant of writeToFileFromURL that sends the request once more when it
\* fails.
writeToFileFromURL_Retry ==
    /\ pc = "writeToFileFromURL"
    /\ wcalled' = TRUE
    /\ \/ /\ \E o \in Orders(args.headers) :
                sent' = sent \o << BuildRequest(userAgent, args, o),
                                   BuildRequest(userAgent, args, o) >>
          /\ Return(0, "client.Do")
          /\ UNCHANGED <<resp, bodies, served>>
       \/ /\ \E o \in Orders(args.headers) :
                sent' = Append(sent, BuildRequest(userAgent, args, o))
          /\ \E r \in Responses :
                /\ resp' = [body |-> r.body]
                /\ served' = Serve(served, r)
                /\ bodies' = bodies \cup {"resp"}
                /\ pc' = IF FileExists(fs) THEN "OpenFile" ELSE "Create"
                /\ ret' = ret
    /\ UNCHANGED <<userAgent, fs, fn, args, head, length, stat, files, before,
                   prevOK>>

\* writeToFileFromURL, dl.go:157-176: the request is built again and sent.
\* (http.NewRequest succeeded on the same URL text in DownloadFile.)
writeToFileFromURL ==
    /\ pc = "writeToFileFromURL"
    /\ wcalled' = TRUE
    /\ \E o \in Orders(args.headers) :
            sent' = Append(sent, BuildRequest(userAgent, args, o))
    /\ \/ /\ Return(0, "client.Do")
          /\ UNCHANGED <<resp, bodies, served>>
       \/ \E r \in Responses :
            /\ resp' = [body |-> r.body]
            /\ served' = Serve(served, r)
            /\ bodies' = bodies \cup {"resp"}
            /\ pc' = IF FileExists(fs) THEN "OpenFile" ELSE "Create"
            /\ ret' = ret
    /\ UNCHANGED <<userAgent, fs, fn, args, head, length, stat, files, before,
                   prevOK>>

\* dl.go:189-195: out, err = os.OpenFile(fileloc, os.O_RDWR, 0775)
writeToFileFromURL_OpenFile ==
    /\ pc = "OpenFile"
    /\ \/ /\ Return(0, "os.OpenFile")
          /\ bodies' = bodies \ {"resp"}
          /\ files' = files
       \/ /\ files' = files \cup {"out"}
          /\ pc' = "Copy"
          /\ UNCHANGED <<ret, bodies>>
    /\ UNCHANGED <<userAgent, fs, fn, args, head, length, stat, resp, sent,
                   before, wcalled, served, prevOK>>

\* dl.go:196-204: os.MkdirAll (its error is dropped), then os.Create, which
\* needs the directory and leaves an empty file.
writeToFileFromURL_Create ==
    /\ pc = "Create"
    /\ \E made \in BOOLEAN, created \in BOOLEAN :
        LET dir == fs.dir \/ made
        IN  IF dir /\ created
            THEN /\ fs' = [dir |-> TRUE, exists |-> TRUE, data |-> <<>>]
                 /\ files' = files \cup {"out"}
                 /\ pc' = "Copy"
                 /\ UNCHANGED <<ret, bodies>>
            ELSE /\ fs' = [fs EXCEPT !.dir = dir]
                 /\ Return(0, "os.Create")
                 /\ bodies' = bodies \ {"resp"}
                 /\ files' = files
    /\ UNCHANGED <<userAgent, fn, args, head, length, stat, resp, sent, before,
                   wcalled, served, prevOK>>

\* dl.go:206-208: io.Copy(out, resp.Body) writes k bytes of the body from
\* offset 0 and returns k with the first error met (a read from the network
\* or a write to the file), then the deferred out.Close() and
\* resp.Body.Close() run.
writeToFileFromURL_Copy ==
    /\ pc = "Copy"
    /\ \E k \in 0..Len(resp.body), e \in {"nil", "io.Copy"} :
        /\ k < Len(resp.body) => e # "nil"
        /\ fs' = [fs EXCEPT !.data = WriteAt0(fs.data, resp.body, k)]
        /\ Return(k, e)
    /\ files' = files \ {"out"}
    /\ bodies' = bodies \ {"resp"}
    /\ UNCHANGED <<userAgent, fn, args, head, length, stat, resp, sent, before,
                   wcalled, served, prevOK>>

\* The caller takes the result; the call's locals are gone.  files and
\* bodies track the running call only: a handle the call left open is out
\* of the program's reach from here on, and a response the caller received
\* is the caller's to close.
Returned ==
    /\ pc = "done"
    /\ pc' = "idle"
    /\ prevOK' = (fn = "DownloadFile" /\ ret.err = "nil")
    /\ files' = {}
    /\ bodies' = {}
    /\ fn' = "none"
    /\ args' = NoArgs
    /\ head' = Nil
    /\ length' = 0
    /\ stat' = -1
    /\ resp' = Nil
    /\ ret' = NoRet
    /\ sent' = <<>>
    /\ before' = fs
    /\ wcalled' = FALSE
    /\ UNCHANGED <<userAgent, fs, served>>

Next ==
    \/ SetUserAgent
    \/ GetBodyFromURL
    \/ GetRespFromURL
    \/ DownloadFile
    \/ DownloadFile_Do
    \/ DownloadFile_BodyClose
    \/ DownloadFile_ContentLength
    \/ DownloadFile_Open
    \/ DownloadFile_Stat
    \/ DownloadFile_Close
    \/ writeToFileFromURL
    \/ writeToFileFromURL_OpenFile
    \/ writeToFileFromURL_Create
    \/ writeToFileFromURL_Copy
    \/ Returned

Spec == Init /\ [][Next]_vars

----------------------------------------------------------------------------
\* Vocabulary of the properties.

\* A DownloadFile call has returned.
Finished == pc = "done" /\ fn = "DownloadFile"

\* Header names that are equal up to letter case.
SameName(a, b) ==
    Len(a) = Len(b) /\ \A i \in 1..Len(a) : ToLower(a[i]) = ToLower(b[i])

\* No two keys of the supplied map name the same header.
CaseUnique(h) == \A a, b \in DOMAIN h : SameName(a, b) => a = b

\* The destination existed, the preliminary response came, and the size of
\* the file was read.
SizeRead == before.exists /\ head # Nil /\ stat # -1

\* The preliminary response advertised the length n in plain decimal.
Advertised(n) == head # Nil /\ head.cl = FormatInt(n)

\* The preliminary response advertised some length other than n.
AdvertisedOther(n) ==
    /\ head # Nil
    /\ \E m \in 0..Max(MaxBody, MaxFile) : m # n /\ head.cl = FormatInt(m)

\* The skip path: zero bytes, no error, no download, nothing touched.
Skipped ==
    /\ ret = [n |-> 0, err |-> "nil"]
    /\ ~wcalled
    /\ Len(sent) = 1
    /\ fs = before

----------------------------------------------------------------------------
\* C1: when the destination existed with a size different from the advertised
\* Content-Length and the call succeeds, the destination afterwards holds
\* exactly the received body: its size is the number of bytes received, which
\* is the value returned, whether the old file was smaller or larger.
C1_OverwrittenToBodySize ==
    (Finished /\ SizeRead /\ AdvertisedOther(Len(before.data)) /\ ret.err = "nil")
        => /\ wcalled
           /\ ret.n = Len(resp.body)
           /\ Len(fs.data) = ret.n
           /\ fs.data = resp.body

\* C2 as stated: when the destination exists and the preliminary request
\* fails in transport, the call goes on to the download path.
C2_PrelimErrorFailsOver ==
    (Finished /\ before.exists /\ Len(sent) >= 1 /\ head = Nil) => wcalled

\* C2 amended: when the destination exists and the preliminary request fails
\* in transport, the call has ended there: it returns 0 and that error, has
\* sent that one request, never enters the download path and leaves the
\* destination as it was.
C2_PrelimErrorReturned ==
    (fn = "DownloadFile" /\ before.exists /\ Len(sent) >= 1 /\ head = Nil)
        => /\ pc = "done"
           /\ ret = [n |-> 0, err |-> "client.Do"]
           /\ ~wcalled
           /\ Len(sent) = 1
           /\ fs = before

C2_Witness ==
    Finished /\ before.exists /\ Len(sent) = 1 /\ head = Nil /\ ret.err = "client.Do"

\* C3: when the destination exists and its size, once read, equals the
\* advertised Content-Length, the call returns (0, no error), sends no request
\* after the preliminary one and leaves the destination's bytes untouched,
\* whatever they are.
C3_EqualSizeSkips ==
    (Finished /\ SizeRead /\ Advertised(Len(before.data)))
        => /\ Skipped
           /\ files = {}
           /\ bodies = {}

\* A skip over a file whose bytes are not what the server would send.
C3_Witness ==
    /\ Finished /\ SizeRead /\ Advertised(Len(before.data))
    /\ before.data = <<"o", "o">>
    /\ ret = [n |-> 0, err |-> "nil"]

\* C4: when the destination does not exist, no preliminary request is ever
\* sent; and when the call then succeeds the destination and its directory
\* exist, the file holds the whole response body and the returned count is
\* the body's length.
C4_AbsentDownloadsWhole ==
    (fn = "DownloadFile" /\ ~before.exists)
        => /\ head = Nil
           /\ Len(sent) <= 1
           /\ pc \notin {"Do", "BodyClose", "ContentLength", "Open", "Stat", "Close"}
           /\ (pc = "done" /\ ret.err = "nil")
                => /\ wcalled
                   /\ Len(sent) = 1
                   /\ fs.exists /\ fs.dir
                   /\ fs.data = resp.body
                   /\ ret.n = Len(resp.body)

\* The directory was missing too, and a non-empty body arrived.
C4_Witness ==
    /\ Finished /\ ~before.exists /\ ~before.dir /\ ret.err = "nil"
    /\ Len(resp.body) = MaxBody /\ fs.data = resp.body

\* C5: when the preliminary response has no Content-Length, or one that is
\* not a number, the call never skips: it enters the download path and sends
\* the download request, for every size of the existing file; and when it
\* succeeds the whole body was written from the start of the file.
C5_UnknownLengthDownloads ==
    (Finished /\ head # Nil /\ head.cl \in {<<>>, <<"a">>})
        => /\ wcalled
           /\ Len(sent) = 2
           /\ stat = -1
           /\ ret.err = "nil"
                => /\ ret.n = Len(resp.body)
                   /\ SubSeq(fs.data, 1, ret.n) = resp.body

\* A non-numeric Content-Length, with a file whose size equals the body's.
C5_Witness ==
    /\ Finished /\ head # Nil /\ head.cl = <<"a">>
    /\ wcalled /\ ret.err = "nil" /\ ret.n = Len(before.data)
    /\ before.exists /\ Len(before.data) = Len(resp.body)

\* C6: every file handle the call opened is closed when it returns, on every
\* exit path.
C6_HandlesReleased == Finished => files = {}

\* C7 as stated: every error return carries the byte count 0.
C7_ErrorCountZero == (Finished /\ ret.err # "nil") => ret.n = 0

\* C7 amended: an error is returned at once, without retry.  The count is 0
\* unless the error arose in io.Copy, where it is the number of bytes written
\* before the failure.  A failed request is the last one sent; a failed
\* preliminary request is the only one.  When opening the existing file or
\* reading its size fails, no download request was sent and the destination
\* is as it was.
C7_ErrorsReturnedAtOnce ==
    (Finished /\ ret.err # "nil")
        => /\ ret.err # "io.Copy" => ret.n = 0
           /\ ret.err = "io.Copy"
                => /\ resp # Nil
                   /\ ret.n <= Len(resp.body)
                   /\ SubSeq(fs.data, 1, ret.n) = SubSeq(resp.body, 1, ret.n)
           /\ ret.err = "http.NewRequest" => (sent = <<>> /\ fs = before)
           /\ ret.err = "client.Do"
                => /\ resp = Nil
                   /\ fs = before
                   /\ Len(sent) = IF before.exists /\ wcalled THEN 2 ELSE 1
                   /\ (before.exists /\ head = Nil) => ~wcalled
           /\ ret.err \in {"os.Open", "File.Stat"}
                => /\ ~wcalled
                   /\ Len(sent) = 1
                   /\ fs = before
           /\ ret.err \in {"os.OpenFile", "os.Create"}
                => /\ fs.data = before.data
                   /\ Len(sent) = IF before.exists THEN 2 ELSE 1

\* A copy that failed after it had written bytes.
C7_Witness ==
    Finished /\ ret.err = "io.Copy" /\ ret.n > 0 /\ ret.n < Len(resp.body)

\* C8: on every request handed to client.Do, a supplied header stands in
\* place of any default of the same name (a supplied User-Agent in any letter
\* case replaces the process-wide one, which is sent only when none is
\* supplied), and every supplied cookie is in the Cookie header.
C8_HeadersOverrideCookiesAttached ==
    \A i \in 1..Len(sent) :
        LET h == sent[i].header
        IN  /\ \A k \in DOMAIN args.headers :
                \E x \in DOMAIN h :
                    /\ SameName(x, k)
                    /\ \E k2 \in DOMAIN args.headers :
                            SameName(k2, k) /\ h[x] = args.headers[k2]
            /\ (\A k \in DOMAIN args.headers : ~SameName(k, KeyUserAgent))
                    => (KeyUserAgent \in DOMAIN h /\ h[KeyUserAgent] = <<userAgent>>)
            /\ \A j \in 1..Len(args.cookies) :
                /\ KeyCookie \in DOMAIN h
                /\ \E n \in 1..Len(h[KeyCookie]) :
                        h[KeyCookie][n] = CookieText(args.cookies[j])

\* C9 as stated: with the destination present, the preliminary request is a
\* GET with the URL, headers and cookies of the download request; its body is
\* closed before any file is opened or the download request is sent; a call
\* sends one request when the destination is absent or the sizes match, two
\* when the destination exists and a download follows, never more.
C9_PrelimSameAsDownload ==
    fn = "DownloadFile"
        => /\ Len(sent) <= 2
           /\ \A i \in 1..Len(sent) : sent[i].method = "GET"
           /\ Len(sent) = 2 => sent[1] = sent[2]
           /\ "head" \in bodies => (files = {} /\ Len(sent) = 1 /\ ~wcalled)
           /\ (files # {} \/ wcalled) => "head" \notin bodies
           /\ (pc = "done" /\ ret.err # "http.NewRequest")
                => Len(sent) = IF before.exists /\ wcalled THEN 2 ELSE 1

\* C9 amended: as stated, except that the two requests are sure to carry the
\* same headers only when no two supplied header names differ in letter case
\* alone; in every case they are GETs of the same URL, they agree on every
\* header whose name was supplied once, and the request counts are those of
\* a call whose request could be constructed.
C9_PrelimSameUnlessCaseClash ==
    fn = "DownloadFile"
        => /\ Len(sent) <= 2
           /\ \A i \in 1..Len(sent) :
                sent[i].method = "GET" /\ sent[i].url = args.u
           /\ Len(sent) = 2
                => /\ DOMAIN sent[1].header = DOMAIN sent[2].header
                   /\ CaseUnique(args.headers) => sent[1] = sent[2]
                   /\ \A x \in DOMAIN sent[1].header :
                        (\A a, b \in DOMAIN args.headers :
                            (SameName(a, x) /\ SameName(b, x)) => a = b)
                            => sent[1].header[x] = sent[2].header[x]
           /\ "head" \in bodies => (files = {} /\ Len(sent) = 1 /\ ~wcalled)
           /\ (files # {} \/ wcalled) => "head" \notin bodies
           /\ (pc = "done" /\ ret.err # "http.NewRequest")
                => Len(sent) = IF before.exists /\ wcalled THEN 2 ELSE 1

\* Two requests, with headers and cookies supplied, and a completed download.
C9_Witness ==
    /\ Finished /\ Len(sent) = 2 /\ ret.err = "nil"
    /\ args.headers # NoHeaders /\ CaseUnique(args.headers)
    /\ args.cookies # <<>>
    /\ sent[1] = sent[2]

\* C10: with a server that always answers with the same body and advertises
\* its length, a successful DownloadFile that follows a successful
\* DownloadFile skips: it returns 0 and writes nothing.
C10_SecondCallSkips ==
    (Finished /\ prevOK /\ served >= 0 /\ ret.err = "nil") => Skipped

====
